---- MODULE Spec2Model ----
(***************************************************************************)
(* A model of the core of Debo: the Redis-backed embedding store and the   *)
(* documentation retrieval over it (src/agents/embeddings.py), the         *)
(* external-LLM router (src/agents/api_manager.py,                         *)
(* src/agents/orchestrator.py), the agent pool (src/agents/agent_pool.py)  *)
(* and the project manager (src/agents/project_manager.py).                *)
(*                                                                         *)
(* Python strings that are matched or concatenated are sequences of        *)
(* one-character strings, so that key construction and Redis glob matching *)
(* are computed, not assumed.  Strings that are only compared (texts,      *)
(* provider names, credentials) are TLA+ strings.                          *)
(***************************************************************************)
EXTENDS Integers, Sequences, FiniteSets, TLC

VARIABLES
    redis,      \* Redis hashes under "embeddings:*": key -> (field -> value)
    op,         \* the last EmbeddingManager call and what it returned
    lastStore,  \* the store_embedding call since which nothing else was stored
    writers,    \* concurrent store_embedding calls: where each one stands
    reader,     \* a concurrent similarity_search call: where it stands
    committed,  \* per Redis key, the store call whose last command ran last
    api_keys,   \* the Redis hash "api_keys", in the order HGETALL lists it
    encoding,   \* how the Redis server holds the hash "api_keys"
    call,       \* the last Orchestrator call on the router and its outcome
    runLog,     \* the AgentPool calls that have ended, in order
    inflight,   \* the AgentPool call whose request is at Ollama, if any
    project_metadata,   \* the Redis hashes "project:<name>:metadata"
    projects_list,      \* the Redis set "projects:list"
    projects_active,    \* the Redis string "projects:active", if set
    pcall               \* the last ProjectManager call and what it returned

storeVars == <<redis, op, lastStore>>
concVars == <<writers, reader, committed>>
routerVars == <<api_keys, encoding, call>>
poolVars == <<runLog, inflight>>
projectVars == <<project_metadata, projects_list, projects_active, pcall>>
vars == <<redis, op, lastStore, writers, reader, committed,
          api_keys, encoding, call, runLog, inflight,
          project_metadata, projects_list, projects_active, pcall>>

-----------------------------------------------------------------------------
(* Bounds of the model. *)

MaxRecords == 2     \* hashes under "embeddings:*"
MaxTopK == 2        \* top_k ranges over -1 .. MaxTopK
MaxCalls == 3       \* AgentPool calls in one run

-----------------------------------------------------------------------------
(* Strings. *)

NoValue == "None"

\* f"embeddings:{key}" and f"embeddings:{namespace}:*": the literal head is
\* one token, it holds no glob character.
EmbPrefix == <<"embeddings:">>

\* Namespaces callers use.  "d" followed by ':' is a prefix of "d:p", and
\* "d*" holds a glob character.
Namespaces ==
    { <<"d">>, <<"d", ":", "p">>, <<"d", "*">> }

\* Record keys inside a namespace; they hold no ':'.
RecordKeys == { <<"j">>, <<"k">> }

\* The key argument a caller passes to store_embedding for (namespace, key).
StoreKey(ns, key) == ns \o <<":">> \o key

\* The Redis key store_embedding writes.
RedisKey(key) == EmbPrefix \o key

\* The pattern similarity_search hands to KEYS.
SearchPattern(ns) == EmbPrefix \o ns \o <<":", "*">>

\* The namespace of a stored Redis key: what precedes the last ':' (record
\* keys hold none), without the "embeddings:" head.
RECURSIVE LastColon(_, _)
LastColon(s, i) ==
    IF i = 0 THEN 0
    ELSE IF s[i] = ":" THEN i
    ELSE LastColon(s, i - 1)

NamespaceOf(rkey) ==
    LET body == SubSeq(rkey, 2, Len(rkey))
        c == LastColon(body, Len(body))
    IN  SubSeq(body, 1, c - 1)

\* Redis KEYS glob matching (stringmatchlen): '*' matches any run of
\* characters, '?' exactly one, '\' quotes the next character, anything
\* else matches itself.  Character classes are not modelled: no string of
\* the model holds '['.
RECURSIVE GlobMatch(_, _)
GlobMatch(pat, s) ==
    IF pat = <<>> THEN s = <<>>
    ELSE IF Head(pat) = "*" THEN
        \/ GlobMatch(Tail(pat), s)
        \/ s # <<>> /\ GlobMatch(pat, Tail(s))
    ELSE IF s = <<>> THEN FALSE
    ELSE IF Head(pat) = "?" THEN GlobMatch(Tail(pat), Tail(s))
    ELSE IF Head(pat) = "\\" /\ Len(pat) >= 2 THEN
        Head(s) = pat[2] /\ GlobMatch(Tail(Tail(pat)), Tail(s))
    ELSE Head(s) = Head(pat) /\ GlobMatch(Tail(pat), Tail(s))

\* redis.keys(pattern): the keys that match, as a set; the order in which
\* Redis enumerates them is not specified.
Keys(r, pattern) == { k \in DOMAIN r : GlobMatch(pattern, k) }

-----------------------------------------------------------------------------
(* The embedding collaborator and the arithmetic of similarity_search. *)

\* Texts a caller stores or queries.  Each process loads the
\* sentence-transformer by name when it constructs its EmbeddingManager and
\* the records outlive it in Redis; the code takes the vector in whatever
\* length the encoder returns.  For Texts the length is one and the same;
\* DimTexts holds a text that is encoded in another length, ZeroTexts a
\* text that is encoded as the zero vector.
Texts == { "t1", "t2" }
DimTexts == { "t1", "t4" }
ZeroTexts == { "t1", "t0" }

\* self.model.encode(text).tolist(): small integer vectors stand for the
\* floats, so that dot products and norms are exact.  t1 and t2 are not
\* parallel and differ in norm.
embed_text(text) ==
    CASE text = "t1" -> <<1, 0>>
      [] text = "t2" -> <<2, 1>>
      [] text = "t4" -> <<1, 0, 0>>
      [] text = "t0" -> <<0, 0>>

Metas == { NoValue, "m1" }

\* json.dumps / json.loads of a list of floats or of a str->str dict: the
\* text form and back.  The round trip is exact for finite floats.
JsonDumps(x) == <<"json", x>>
JsonLoads(s) == s[2]

\* `metadata or {}`
MetaOrEmpty(meta) == IF meta = NoValue THEN "{}" ELSE meta

RECURSIVE DotFrom(_, _, _)
DotFrom(a, b, i) ==
    IF i > Len(a) THEN 0 ELSE a[i] * b[i] + DotFrom(a, b, i + 1)

\* np.dot(a, b) for two vectors of one length.
Dot(a, b) == DotFrom(a, b, 1)

\* np.linalg.norm(a) squared.
NormSq(a) == Dot(a, a)

\* A faulty variant: the dot product alone, not divided by the norms.
CosineUnnormalised(q, v) == [num |-> Dot(q, v), den2 |-> 1]

\* np.dot(q, v) / (norm(q) * norm(v)), kept exact as the pair (num, den2)
\* standing for num / sqrt(den2); den2 > 0 for non-zero vectors.  When
\* q or v has norm zero the numpy division is 0.0 / 0.0: it warns and
\* returns nan, the pair (0, 0), and raises nothing.
Cosine(q, v) == [num |-> Dot(q, v), den2 |-> NormSq(q) * NormSq(v)]

\* The score is nan: the similarity is undefined.
IsNan(score) == score.den2 = 0

Sgn(x) == IF x > 0 THEN 1 ELSE IF x < 0 THEN -1 ELSE 0

\* a >= b and a = b on such pairs: x |-> sgn(x) * x^2 is increasing.
\* ScoreGeq is `not a < b`, the comparison the sort makes; it is true of
\* nan against every score, as `<` is false of nan in Python.
ScoreGeq(a, b) ==
    Sgn(a.num) * a.num * a.num * b.den2 >= Sgn(b.num) * b.num * b.num * a.den2

ScoreEq(a, b) == ScoreGeq(a, b) /\ ScoreGeq(b, a)

-----------------------------------------------------------------------------
(* The Redis commands the store uses. *)

\* HSET key field value [field value ...]: one command; it sets the given
\* fields and keeps the others of an existing hash.
Hset(r, key, mapping) ==
    [x \in DOMAIN r \cup {key} |->
        IF x = key
        THEN [f \in (IF key \in DOMAIN r THEN DOMAIN r[key] ELSE {})
                    \cup DOMAIN mapping |->
                IF f \in DOMAIN mapping THEN mapping[f] ELSE r[key][f]]
        ELSE r[x]]

\* HGETALL key
Hgetall(r, key) == r[key]

\* A faulty variant: the metadata field is written only when metadata is
\* given.
StoreDataWithoutDefault(text, meta) ==
    IF meta = NoValue
    THEN [text |-> text, embedding |-> JsonDumps(embed_text(text))]
    ELSE [text |-> text,
          embedding |-> JsonDumps(embed_text(text)),
          metadata |-> JsonDumps(meta)]

\* The `data` dict store_embedding builds.
StoreData(text, meta) ==
    [text |-> text,
     embedding |-> JsonDumps(embed_text(text)),
     metadata |-> JsonDumps(MetaOrEmpty(meta))]

\* A faulty variant: one HSET per field.
StoreCommandsPerField(data) ==
    << [text |-> data.text],
       [embedding |-> data.embedding],
       [metadata |-> data.metadata] >>

\* The Redis commands one store_embedding call sends: a single HSET that
\* carries the whole mapping.
StoreCommands(data) == <<data>>

RECURSIVE ApplyCommands(_, _, _)
ApplyCommands(r, rkey, cmds) ==
    IF cmds = <<>> THEN r
    ELSE ApplyCommands(Hset(r, rkey, Head(cmds)), rkey, Tail(cmds))

\* store_embedding(key, text, metadata) run alone: the store after the call.
store_embedding(r, key, text, meta) ==
    ApplyCommands(r, RedisKey(key), StoreCommands(StoreData(text, meta)))

-----------------------------------------------------------------------------
(* similarity_search. *)

\* One entry of `results`, from a key and the hash HGETALL gave for it.
ResultRow(qe, key, data) ==
    [key |-> key,
     text |-> data.text,
     similarity |-> Cosine(qe, JsonLoads(data.embedding)),
     metadata |-> JsonLoads(data.metadata)]

\* list.sort(key=similarity, reverse=True) is stable: rows of equal
\* similarity keep the order they were appended in.
RECURSIVE InsertDesc(_, _)
InsertDesc(row, sorted) ==
    IF sorted = <<>> THEN <<row>>
    ELSE IF ScoreGeq(Head(sorted).similarity, row.similarity)
         THEN <<Head(sorted)>> \o InsertDesc(row, Tail(sorted))
         ELSE <<row>> \o sorted

RECURSIVE SortDesc(_, _)
SortDesc(rows, done) ==
    IF rows = <<>> THEN done
    ELSE SortDesc(Tail(rows), InsertDesc(Head(rows), done))

\* results[:top_k], a Python slice: a negative top_k counts from the end.
SliceTo(rows, k) ==
    IF k >= 0
    THEN SubSeq(rows, 1, IF k < Len(rows) THEN k ELSE Len(rows))
    ELSE SubSeq(rows, 1, IF Len(rows) + k > 0 THEN Len(rows) + k ELSE 0)

\* The orders in which KEYS may enumerate a set of keys.
Orders(S) ==
    { o \in [1 .. Cardinality(S) -> S] :
        \A i, j \in 1 .. Cardinality(S) : i # j => o[i] # o[j] }

EmbeddingFields == {"text", "embedding", "metadata"}

\* The loop, the sort and the slice of similarity_search over the hashes
\* read, got[i] = [key, data]: data['embedding'] raises KeyError on a hash
\* without the field, np.dot raises ValueError on vectors of different
\* lengths; otherwise the sorted rows, sliced.
RankRows(qe, got, k) ==
    IF \E i \in 1 .. Len(got) : ~(EmbeddingFields \subseteq DOMAIN got[i].data)
    THEN [raised |-> "KeyError", rows |-> <<>>]
    ELSE IF \E i \in 1 .. Len(got) :
                Len(JsonLoads(got[i].data.embedding)) # Len(qe)
    THEN [raised |-> "ValueError", rows |-> <<>>]
    ELSE [raised |-> NoValue,
          rows |-> SliceTo(
              SortDesc([i \in 1 .. Len(got) |->
                           ResultRow(qe, got[i].key, got[i].data)], <<>>), k)]

\* similarity_search(query, namespace, top_k) run alone, when KEYS
\* returned `order`.
similarity_search(r, query, ns, k, order) ==
    RankRows(embed_text(query),
             [i \in 1 .. Len(order) |->
                 [key |-> order[i], data |-> Hgetall(r, order[i])]],
             k)

-----------------------------------------------------------------------------
(* The initial state: an empty Redis, nothing called. *)

NoOp == [kind |-> "none"]

InitStore ==
    /\ redis = << >>
    /\ op = NoOp
    /\ lastStore = NoOp

\* The processes that store concurrently.
Writers == { "w1", "w2" }

Idle == [pc |-> "idle"]

\* What the concurrent writers store: two calls that differ in every
\* field, so that a hash mixing two calls is told from a whole one.
Payloads == { [text |-> "t1", meta |-> NoValue], [text |-> "t2", meta |-> "m1"] }

ConcNamespace == <<"d">>

\* top_k: int = 5
DefaultTopK == 5

InitConc ==
    /\ writers = [w \in Writers |-> Idle]
    /\ reader = Idle
    /\ committed = << >>

InitRouter ==
    /\ api_keys = << >>
    /\ encoding = "listpack"
    /\ call = NoOp

InitPool ==
    /\ runLog = << >>
    /\ inflight = NoOp

\* A Redis string key that is not set.
NoKey == << >>

InitProjects ==
    /\ project_metadata = << >>
    /\ projects_list = {}
    /\ projects_active = NoKey
    /\ pcall = NoOp

Init == InitStore /\ InitConc /\ InitRouter /\ InitPool /\ InitProjects

-----------------------------------------------------------------------------
(* The embedding store, one caller at a time. *)

\* A caller stores `text` under (ns, key).
StoreEmbedding(nss, texts, metas) ==
    \E ns \in nss, key \in RecordKeys, text \in texts, meta \in metas :
        LET skey == StoreKey(ns, key)
        IN  /\ \/ RedisKey(skey) \in DOMAIN redis
               \/ Cardinality(DOMAIN redis) < MaxRecords
            /\ redis' = store_embedding(redis, skey, text, meta)
            /\ op' = [kind |-> "store", ns |-> ns, key |-> key,
                      text |-> text, meta |-> meta]
            /\ lastStore' = op'
            /\ UNCHANGED <<concVars, routerVars, poolVars, projectVars>>

\* A caller searches namespace `ns`.
SimilaritySearch(nss, texts) ==
    \E query \in texts, ns \in nss, k \in -1 .. MaxTopK :
        \E order \in Orders(Keys(redis, SearchPattern(ns))) :
            /\ op' = [kind |-> "search", query |-> query, ns |-> ns, k |-> k,
                      out |-> similarity_search(redis, query, ns, k, order)]
            /\ UNCHANGED <<redis, lastStore, concVars, routerVars, poolVars, projectVars>>

NextStore ==
    \/ StoreEmbedding(Namespaces, Texts, {NoValue})
    \/ SimilaritySearch(Namespaces, Texts)

SpecStore == Init /\ [][NextStore]_vars

\* The same store with an embedding collaborator whose output length is
\* not the same for every text: store_embedding takes whatever length
\* embed_text returns.
NextDim ==
    \/ StoreEmbedding(Namespaces, DimTexts, {NoValue})
    \/ SimilaritySearch(Namespaces, DimTexts)

SpecDim == Init /\ [][NextDim]_vars

\* The same store with an embedding collaborator that returns the zero
\* vector for one text.
NextZero ==
    \/ StoreEmbedding(Namespaces, ZeroTexts, {NoValue})
    \/ SimilaritySearch(Namespaces, ZeroTexts)

SpecZero == Init /\ [][NextZero]_vars

\* Stores alone, with every metadata value.
NextUpsert == StoreEmbedding(Namespaces, Texts, Metas)

SpecUpsert == Init /\ [][NextUpsert]_vars

-----------------------------------------------------------------------------
(* DocumentationRAG over the embedding store. *)

\* The tech_stack and project_id values callers pass; "r" followed by ':' is
\* a prefix of "r:h".
Stacks == { "r", "r:h", "v" }

\* The characters of such a value.
Chars(id) ==
    CASE id = "r" -> <<"r">>
      [] id = "r:h" -> <<"r", ":", "h">>
      [] id = "v" -> <<"v">>

\* f"docs:{tech_stack}" and f"docs:{project_id}"
DocsName(id) == <<"d", "o", "c", "s", ":">> \o Chars(id)

\* {'type': 'documentation', 'stack': tech_stack}: the dict is determined by
\* tech_stack, whose name stands for it.
DocMeta(tech_stack) == tech_stack

\* store_documentation(tech_stack, content): the store after the call.
store_documentation(r, tech_stack, content) ==
    store_embedding(r, DocsName(tech_stack), content, DocMeta(tech_stack))

\* get_relevant_docs(query, project_id) when KEYS returned `order`: the texts
\* of the rows, which "\n".join makes the lines of the context.
get_relevant_docs(r, query, project_id, order) ==
    LET results ==
            similarity_search(r, query, DocsName(project_id), DefaultTopK, order)
    IN  [raised |-> results.raised,
         context |-> [i \in 1 .. Len(results.rows) |-> results.rows[i].text]]

StoreDocumentation ==
    \E tech_stack \in Stacks, content \in Texts :
        /\ \/ RedisKey(DocsName(tech_stack)) \in DOMAIN redis
           \/ Cardinality(DOMAIN redis) < MaxRecords
        /\ redis' = store_documentation(redis, tech_stack, content)
        /\ op' = [kind |-> "store_doc", tech_stack |-> tech_stack,
                  content |-> content]
        /\ lastStore' = op'
        /\ UNCHANGED <<concVars, routerVars, poolVars, projectVars>>

GetRelevantDocs ==
    \E query \in Texts, project_id \in Stacks :
        \E order \in Orders(Keys(redis, SearchPattern(DocsName(project_id)))) :
            /\ op' = [kind |-> "get_docs", query |-> query,
                      project_id |-> project_id,
                      out |-> get_relevant_docs(redis, query, project_id, order)]
            /\ UNCHANGED <<redis, lastStore, concVars, routerVars, poolVars, projectVars>>

NextDocs ==
    \/ StoreDocumentation
    \/ GetRelevantDocs

SpecDocs == Init /\ [][NextDocs]_vars

-----------------------------------------------------------------------------
(* Properties of the embedding store. *)

Searched == op.kind = "search" /\ op.out.raised = NoValue

Rows == op.out.rows

\* The Redis key of the record a caller stored under (ns, key).
RecordAt(ns, key) == RedisKey(StoreKey(ns, key))

\* The records stored under exactly the namespace ns.
InNamespace(ns) == { rk \in DOMAIN redis : NamespaceOf(rk) = ns }

\* C3: a search of namespace ns returns only records whose namespace is
\* exactly ns.
C3_SearchStaysInNamespace ==
    Searched => \A i \in 1 .. Len(Rows) : NamespaceOf(Rows[i].key) = op.ns

\* C4: a search returns at most k records (none for a k below zero), in
\* non-increasing order of score, all of namespace ns, and all m of them
\* when ns holds m < k.
C4_SearchContract ==
    Searched =>
        /\ Len(Rows) <= (IF op.k > 0 THEN op.k ELSE 0)
        /\ \A i \in 1 .. Len(Rows) - 1 :
               ScoreGeq(Rows[i].similarity, Rows[i + 1].similarity)
        /\ \A i \in 1 .. Len(Rows) : NamespaceOf(Rows[i].key) = op.ns
        /\ Cardinality(InNamespace(op.ns)) < op.k =>
               Len(Rows) = Cardinality(InNamespace(op.ns))

\* C7: all vectors stored in one namespace have the same dimension.
C7_OneDimensionPerNamespace ==
    \A a, b \in DOMAIN redis :
        NamespaceOf(a) = NamespaceOf(b) =>
            Len(JsonLoads(redis[a].embedding)) = Len(JsonLoads(redis[b].embedding))

\* C8: a store is an upsert on its key: it leaves exactly the fields of
\* this call under the key, adds no other key and changes no other record.
C8_Upsert ==
    [][op'.kind = "store" =>
        LET rk == RecordAt(op'.ns, op'.key)
        IN  /\ DOMAIN redis' = DOMAIN redis \cup {rk}
            /\ DOMAIN redis'[rk] = {"text", "embedding", "metadata"}
            /\ redis'[rk].text = op'.text
            /\ JsonLoads(redis'[rk].embedding) = embed_text(op'.text)
            /\ JsonLoads(redis'[rk].metadata) =
                   (IF op'.meta = NoValue THEN "{}" ELSE op'.meta)
            /\ \A x \in DOMAIN redis \ {rk} : redis'[x] = redis[x]
      ]_vars

\* A store without metadata has acted beside a record of another key that
\* holds another text and metadata.
C8_Witness ==
    /\ op.kind = "store"
    /\ op.text = "t2" /\ op.meta = NoValue
    /\ redis[RecordAt(op.ns, op.key)].text = "t2"
    /\ \E rk \in DOMAIN redis \ {RecordAt(op.ns, op.key)} :
           /\ redis[rk].text = "t1"
           /\ JsonLoads(redis[rk].metadata) = "m1"

\* The search that follows a store, for the stored text in its namespace.
SearchAfterStore ==
    /\ Searched
    /\ lastStore.kind = "store"
    /\ op.query = lastStore.text
    /\ op.ns = lastStore.ns
    /\ op.k >= 1

ScansOwnNamespace == Keys(redis, SearchPattern(op.ns)) = InNamespace(op.ns)

\* C11: a search with top_k <= 0, zero and every negative value, returns
\* the empty sequence, and a search with top_k above the number of records
\* of the namespace returns each of them once and nothing more.  Stated for
\* the searches whose scan found exactly the namespace's records.
C11_TopKEdges ==
    (Searched /\ ScansOwnNamespace) =>
        /\ op.k <= 0 => Rows = <<>>
        /\ op.k > Cardinality(InNamespace(op.ns)) =>
               /\ Len(Rows) = Cardinality(InNamespace(op.ns))
               /\ { Rows[i].key : i \in 1 .. Len(Rows) } = InNamespace(op.ns)

\* C13: rows of equal score come in the order their records were
\* inserted, so that a search returns one and the same sequence under
\* every order in which the store may enumerate the keys.  Stated as that
\* consequence, for the searches with a positive top_k whose scan found
\* exactly the namespace's records: the rows returned are those of every
\* other enumeration.
C13_ResultIgnoresKeyOrder ==
    (Searched /\ ScansOwnNamespace /\ op.k > 0) =>
        \A order \in Orders(Keys(redis, SearchPattern(op.ns))) :
            similarity_search(redis, op.query, op.ns, op.k, order).rows = Rows

\* C16: documentation stored under S is part of the context that
\* get_relevant_docs returns for project_id = S: after
\* store_documentation(S, content), with nothing stored since, the context
\* of get_relevant_docs(query, S) holds content.
C16_DocsRoundTrip ==
    (/\ op.kind = "get_docs"
     /\ lastStore.kind = "store_doc"
     /\ op.project_id = lastStore.tech_stack) =>
        /\ op.out.raised = NoValue
        /\ \E i \in 1 .. Len(op.out.context) :
               op.out.context[i] = lastStore.content

\* The stored vector of the record under Redis key rk.
StoredVector(rk) == JsonLoads(redis[rk].embedding)

\* C12: a record whose stored vector has zero norm is in no search result,
\* no returned row has an undefined score and the search raises nothing;
\* the other records the scan found are all ranked, each of them being
\* returned when top_k admits them all.  Stated for queries whose own
\* embedding has a norm.
C12_ZeroNormExcluded ==
    (op.kind = "search" /\ NormSq(embed_text(op.query)) # 0) =>
        /\ op.out.raised = NoValue
        /\ \A i \in 1 .. Len(Rows) :
               /\ NormSq(StoredVector(Rows[i].key)) # 0
               /\ ~IsNan(Rows[i].similarity)
        /\ op.k >= Cardinality(Keys(redis, SearchPattern(op.ns))) =>
               \A rk \in Keys(redis, SearchPattern(op.ns)) :
                   NormSq(StoredVector(rk)) # 0 =>
                       \E i \in 1 .. Len(Rows) : Rows[i].key = rk

-----------------------------------------------------------------------------
(* Concurrent store_embedding and similarity_search calls.  Processes     *)
(* that share the Redis server interleave between Redis commands; Redis   *)
(* runs each command alone.                                               *)

ConcKeys == { StoreKey(ConcNamespace, key) : key \in RecordKeys }

\* store_embedding up to the Redis command: the embedding and `data` are
\* computed in the caller.
WriterCall(w) ==
    /\ writers[w].pc = "idle"
    /\ \E key \in ConcKeys, p \in Payloads :
           writers' = [writers EXCEPT ![w] =
               [pc |-> "hset", key |-> key, payload |-> p,
                cmds |-> StoreCommands(StoreData(p.text, p.meta))]]
    /\ UNCHANGED <<redis, reader, committed, op, lastStore, routerVars, poolVars, projectVars>>

\* The next Redis command of the call runs; after the last the call returns.
WriterHset(w) ==
    /\ writers[w].pc = "hset"
    /\ LET me == writers[w]
           rkey == RedisKey(me.key)
       IN  /\ redis' = Hset(redis, rkey, Head(me.cmds))
           /\ IF Tail(me.cmds) = <<>>
              THEN /\ writers' = [writers EXCEPT ![w] = Idle]
                   /\ committed' =
                          [x \in DOMAIN committed \cup {rkey} |->
                              IF x = rkey THEN me.payload ELSE committed[x]]
              ELSE /\ writers' = [writers EXCEPT ![w].cmds = Tail(me.cmds)]
                   /\ UNCHANGED committed
    /\ UNCHANGED <<reader, op, lastStore, routerVars, poolVars, projectVars>>

\* similarity_search up to and with KEYS.
ReaderCall ==
    /\ reader.pc \in {"idle", "done"}
    /\ \E query \in Texts :
       \E order \in Orders(Keys(redis, SearchPattern(ConcNamespace))) :
           reader' = [pc |-> "scan", query |-> query, todo |-> order, got |-> <<>>]
    /\ UNCHANGED <<redis, writers, committed, op, lastStore, routerVars, poolVars, projectVars>>

\* One turn of the loop: HGETALL of the next key.
ReaderHgetall ==
    /\ reader.pc = "scan"
    /\ reader.todo # <<>>
    /\ reader' = [reader EXCEPT
           !.todo = Tail(@),
           !.got = Append(@, [key |-> Head(reader.todo),
                              data |-> Hgetall(redis, Head(reader.todo))])]
    /\ UNCHANGED <<redis, writers, committed, op, lastStore, routerVars, poolVars, projectVars>>

\* The loop is over: sort, slice, return.
ReaderReturn ==
    /\ reader.pc = "scan"
    /\ reader.todo = <<>>
    /\ reader' = [pc |-> "done", query |-> reader.query, got |-> reader.got,
                  out |-> RankRows(embed_text(reader.query), reader.got, DefaultTopK)]
    /\ UNCHANGED <<redis, writers, committed, op, lastStore, routerVars, poolVars, projectVars>>

NextConc ==
    \/ \E w \in Writers : WriterCall(w)
    \/ \E w \in Writers : WriterHset(w)
    \/ ReaderCall
    \/ ReaderHgetall
    \/ ReaderReturn

SpecConc == Init /\ [][NextConc]_vars

\* A hash that holds the three fields of one store call.
WholeFor(data, p) ==
    /\ DOMAIN data = EmbeddingFields
    /\ data.text = p.text
    /\ JsonLoads(data.embedding) = embed_text(p.text)
    /\ JsonLoads(data.metadata) = (IF p.meta = NoValue THEN "{}" ELSE p.meta)

Whole(data) == \E p \in Payloads : WholeFor(data, p)

\* C9: under every interleaving a search reads only whole records, the
\* store holds only whole records, and each record is the one of the store
\* call that wrote last.
C9_NoTornRecord ==
    /\ reader.pc # "idle" =>
           \A i \in 1 .. Len(reader.got) : Whole(reader.got[i].data)
    /\ reader.pc = "done" => reader.out.raised = NoValue
    /\ \A rk \in DOMAIN redis :
           /\ Whole(redis[rk])
           /\ rk \in DOMAIN committed /\ WholeFor(redis[rk], committed[rk])

\* Two stores of different payloads to one key are both at their HSET
\* while a search that has read that key is in its loop.
C9_Witness ==
    /\ writers["w1"].pc = "hset" /\ writers["w2"].pc = "hset"
    /\ writers["w1"].key = writers["w2"].key
    /\ writers["w1"].payload # writers["w2"].payload
    /\ reader.pc = "scan"
    /\ \E i \in 1 .. Len(reader.got) :
           reader.got[i].key = RedisKey(writers["w1"].key)
    /\ reader.todo # <<>>

-----------------------------------------------------------------------------
(* The router: ApiManager over the Redis hash "api_keys", and the two     *)
(* Orchestrator entry points.                                             *)

\* Provider names callers use; "mistral" has no adapter.
Providers == { "openai", "anthropic", "mistral" }

\* Credentials callers store; the empty string is a stored value like any
\* other.  LongCredentials are those longer than the value length up to
\* which the Redis server keeps a hash as a listpack (64 bytes unless
\* configured otherwise), as the keys some providers issue are.
Credentials == { "", "sk", "sk-long" }
LongCredentials == { "sk-long" }

\* What the provider's HTTP endpoint does with a request.
Replies == { "ok", "malformed", "transport" }

\* HSET api_keys field value on a hash held as a listpack: a new field goes
\* last in the listing, a field already there keeps its place and takes
\* the value.
HsetField(h, f, v) ==
    IF \E i \in 1 .. Len(h) : h[i].field = f
    THEN [i \in 1 .. Len(h) |->
             IF h[i].field = f THEN [field |-> f, value |-> v] ELSE h[i]]
    ELSE Append(h, [field |-> f, value |-> v])

\* The listings of the entries of h in every order.
Listings(h) ==
    { [i \in 1 .. Len(h) |-> h[o[i]]] : o \in Orders(1 .. Len(h)) }

\* The listings that hold entry e at some place among the entries of h.
InsertAnywhere(h, e) ==
    { SubSeq(h, 1, i) \o <<e>> \o SubSeq(h, i + 1, Len(h)) : i \in 0 .. Len(h) }

\* HSET api_keys field value and the listing HGETALL gives after it.  Redis
\* does not specify the order of HGETALL.  A listpack lists the fields in
\* the order they were added.  A value above the listpack limit turns the
\* hash into a hash table for good, which lists the fields by bucket: the
\* conversion may leave them in any order, a field added later may land at
\* any place, a field already there keeps its place.
HsetOutcomes(h, enc, f, v) ==
    IF enc = "listpack" /\ v \notin LongCredentials
    THEN { [list |-> HsetField(h, f, v), encoding |-> "listpack"] }
    ELSE IF enc = "listpack"
    THEN { [list |-> l, encoding |-> "hashtable"] :
             l \in Listings(HsetField(h, f, v)) }
    ELSE IF \E i \in 1 .. Len(h) : h[i].field = f
    THEN { [list |-> HsetField(h, f, v), encoding |-> "hashtable"] }
    ELSE { [list |-> l, encoding |-> "hashtable"] :
             l \in InsertAnywhere(h, [field |-> f, value |-> v]) }

\* store_api_key(provider, api_key): the states of the hash it may leave.
store_api_key(h, enc, provider, api_key) ==
    HsetOutcomes(h, enc, provider, api_key)

\* get_api_key(provider): HGET, `or ""` for a field that is not there.
get_api_key(h, provider) ==
    IF \E i \in 1 .. Len(h) : h[i].field = provider
    THEN (CHOOSE e \in { h[i] : i \in 1 .. Len(h) } : e.field = provider).value
    ELSE ""

\* list_providers(): the fields of HGETALL, in its order.
list_providers(h) == [i \in 1 .. Len(h) |-> h[i].field]

\* _call_openai, _call_anthropic, _call_google: requests.post raises on a
\* transport failure, the subscript chain raises on a body of another
\* shape, otherwise the text is returned.
CallAdapter(provider, reply) ==
    CASE reply = "ok" ->
            [dispatched |-> provider, returned |-> "text", raised |-> NoValue]
      [] reply = "malformed" ->
            [dispatched |-> provider, returned |-> NoValue, raised |-> "KeyError"]
      [] reply = "transport" ->
            [dispatched |-> provider, returned |-> NoValue,
             raised |-> "ConnectionError"]

\* call_external_llm(provider, prompt, model)
call_external_llm(h, provider, reply) ==
    IF get_api_key(h, provider) = ""
    THEN [dispatched |-> NoValue, returned |-> "No API key configured",
          raised |-> NoValue]
    ELSE IF provider \in {"openai", "anthropic", "google"}
    THEN CallAdapter(provider, reply)
    ELSE [dispatched |-> NoValue, returned |-> "Unsupported provider",
          raised |-> NoValue]

\* `x in providers` on the list.
InList(x, list) == \E i \in 1 .. Len(list) : list[i] = x

\* use_external_llm(prompt, provider, model); provider = NoValue is the
\* default None.
use_external_llm(h, provider, reply) ==
    LET providers == list_providers(h)
    IN  IF provider # NoValue /\ InList(provider, providers)
        THEN call_external_llm(h, provider, reply)
        ELSE IF providers # <<>>
        THEN call_external_llm(h, providers[1], reply)
        ELSE [dispatched |-> NoValue, returned |-> "Using local models",
              raised |-> NoValue]

\* configure_external_llm(provider, api_key, model)
ConfigureExternalLlm ==
    \E provider \in Providers, api_key \in Credentials :
        /\ \E stored \in store_api_key(api_keys, encoding, provider, api_key) :
               /\ api_keys' = stored.list
               /\ encoding' = stored.encoding
        /\ call' = [kind |-> "configure", provider |-> provider,
                    api_key |-> api_key,
                    returned |-> "API configured successfully"]
        /\ UNCHANGED <<storeVars, concVars, poolVars, projectVars>>

\* use_external_llm(prompt, provider, model)
UseExternalLlm ==
    \E provider \in Providers \cup {NoValue}, reply \in Replies :
        /\ call' = [kind |-> "use", provider |-> provider,
                    out |-> use_external_llm(api_keys, provider, reply)]
        /\ UNCHANGED <<api_keys, encoding, storeVars, concVars, poolVars, projectVars>>

NextRouter ==
    \/ ConfigureExternalLlm
    \/ UseExternalLlm

SpecRouter == Init /\ [][NextRouter]_vars

\* listConfigured(): the names registered, in the order of the listing.
ListConfigured == list_providers(api_keys)

\* A provider is configured when it is registered with a credential.
Configured(provider) ==
    \E i \in 1 .. Len(api_keys) :
        api_keys[i].field = provider /\ api_keys[i].value # ""

\* The backend the routing rules select for a call.
Selected(provider) ==
    IF provider # NoValue /\ InList(provider, ListConfigured) THEN provider
    ELSE IF provider = NoValue /\ ListConfigured # <<>> THEN ListConfigured[1]
    ELSE "local"

\* C5: no call is dispatched to a provider other than the one the routing
\* rules select: the provider given when it is configured, the first of
\* listConfigured() when none is given, the local backend otherwise.
C5_DispatchFollowsRules ==
    call.kind = "use" /\ call.out.dispatched # NoValue =>
        call.out.dispatched = Selected(call.provider)

\* C6: a call that names a provider that is not configured attempts no
\* provider call, raises nothing and returns an explicit notice.
C6_UnconfiguredIsReported ==
    call.kind = "use" /\ call.provider # NoValue /\ ~Configured(call.provider) =>
        /\ call.out.dispatched = NoValue
        /\ call.out.raised = NoValue
        /\ call.out.returned \in {"No API key configured", "Using local models"}

\* C15: after any sequence of configure calls the listing holds each
\* configured name once, in the order of first registration: a configure of
\* a new name adds it at the end, a configure of a registered name leaves
\* the listing as it was; either way the credential given, whatever it is,
\* is the one stored under the name.
C15_ListingInRegistrationOrder ==
    [][ call'.kind = "configure" =>
            LET before == list_providers(api_keys)
                after == list_providers(api_keys')
            IN  /\ after = IF InList(call'.provider, before)
                            THEN before
                            ELSE Append(before, call'.provider)
                /\ \A i, j \in 1 .. Len(after) : i # j => after[i] # after[j]
                /\ \E i \in 1 .. Len(api_keys') :
                       api_keys'[i] = [field |-> call'.provider,
                                       value |-> call'.api_key]
      ]_vars

-----------------------------------------------------------------------------
(* The agent pool: three methods, each one request to Ollama.  The class  *)
(* keeps no stage and no artifacts; what a run has done is the log of its *)
(* calls.                                                                 *)

\* self.models['coding']
CodingModel == "devstral:latest"

Tasks == { "task" }
Contexts == { "context" }

\* What Ollama does with a request: a body with the field "response", a
\* JSON body without it (an error object), a body that is not JSON, or no
\* answer at all.
OllamaReplies == { "ok", "no-response-field", "not-json", "transport" }

\* The payload OllamaClient.generate posts; `system` is never given here.
GeneratePayload(model, prompt) ==
    [model |-> model, prompt |-> prompt, stream |-> FALSE]

\* OllamaClient.generate from the answer on: requests.post raises on a
\* transport failure, response.json() raises on a body that is not JSON,
\* .get("response", "") gives the text or the empty string.
GenerateResult(reply) ==
    CASE reply = "ok" -> [returned |-> "text", raised |-> NoValue]
      [] reply = "no-response-field" -> [returned |-> "", raised |-> NoValue]
      [] reply = "not-json" -> [returned |-> NoValue, raised |-> "JSONDecodeError"]
      [] reply = "transport" -> [returned |-> NoValue, raised |-> "ConnectionError"]

\* The strings a caller holds and may pass as `tests` or `code`: what the
\* calls so far returned, and the empty string.
Held ==
    {""} \cup { runLog[i].returned :
                  i \in { j \in 1 .. Len(runLog) : runLog[j].raised = NoValue } }

\* The request a method has posted through self.ollama.generate.
Posted(stage, prompt) ==
    [kind |-> "call", stage |-> stage,
     payload |-> GeneratePayload(CodingModel, prompt)]

\* A caller may call when no call of the run is under way; no method looks
\* at what was called before.
CanCall == inflight = NoOp /\ Len(runLog) < MaxCalls

\* create_test_agent(task, context), up to the request.
CreateTestAgent ==
    /\ CanCall
    /\ \E task \in Tasks, context \in Contexts :
           inflight' = Posted("TESTS",
               <<"Create comprehensive tests for", task, context>>)
    /\ UNCHANGED <<runLog, storeVars, concVars, routerVars, projectVars>>

\* create_code_agent(task, tests, context), up to the request.
CreateCodeAgent ==
    /\ CanCall
    /\ \E task \in Tasks, tests \in Held, context \in Contexts :
           inflight' = Posted("CODE",
               <<"Implement code to pass these tests", tests, task, context>>)
    /\ UNCHANGED <<runLog, storeVars, concVars, routerVars, projectVars>>

\* create_qa_agent(code, task), up to the request.
CreateQaAgent ==
    /\ CanCall
    /\ \E code \in Held, task \in Tasks :
           inflight' = Posted("REVIEW", <<"Review this code for", task, code>>)
    /\ UNCHANGED <<runLog, storeVars, concVars, routerVars, projectVars>>

\* Ollama answers, generate returns or raises, and so does the method.
OllamaResponds ==
    /\ inflight # NoOp
    /\ \E reply \in OllamaReplies :
           runLog' = Append(runLog,
               [stage |-> inflight.stage, reply |-> reply,
                returned |-> GenerateResult(reply).returned,
                raised |-> GenerateResult(reply).raised])
    /\ inflight' = NoOp
    /\ UNCHANGED <<storeVars, concVars, routerVars, projectVars>>

NextPool ==
    \/ CreateTestAgent
    \/ CreateCodeAgent
    \/ CreateQaAgent
    \/ OllamaResponds

SpecPool == Init /\ [][NextPool]_vars

\* The stages whose call was issued, in order.
Issued ==
    [i \in 1 .. Len(runLog) |-> runLog[i].stage]
        \o (IF inflight = NoOp THEN <<>> ELSE <<inflight.stage>>)

StageOrder == <<"TESTS", "CODE", "REVIEW">>

\* C1: a run issues its calls in the order TESTS, CODE, REVIEW and none
\* after them, each one after the call before it has returned its output.
C1_StagesInOrder ==
    \A i \in 1 .. Len(Issued) :
        /\ i <= Len(StageOrder)
        /\ Issued[i] = StageOrder[i]
        /\ i > 1 => runLog[i - 1].raised = NoValue

\* C2: a stage whose provider call failed ends the run as failed: the
\* failure reaches the caller and no later stage is attempted.
C2_FailureEndsRun ==
    \A i \in 1 .. Len(runLog) :
        runLog[i].reply # "ok" =>
            /\ runLog[i].raised # NoValue
            /\ i = Len(runLog)
            /\ inflight = NoOp

\* The adapters call_external_llm dispatches to.
Adapters == { "openai", "anthropic", "google" }

\* C14: a transport failure, and a provider response without the expected
\* field, reaches the caller as an error and never as a returned value, the
\* empty string included, that a successful generation could also return;
\* so for every call of the local backend and for every remote adapter.
C14_FailuresAreErrors ==
    /\ \A i \in 1 .. Len(runLog) :
           runLog[i].reply # "ok" =>
               /\ runLog[i].raised # NoValue
               /\ runLog[i].returned = NoValue
    /\ \A provider \in Adapters, reply \in Replies \ {"ok"} :
           /\ CallAdapter(provider, reply).raised # NoValue
           /\ CallAdapter(provider, reply).returned = NoValue

-----------------------------------------------------------------------------
(* ProjectManager over the Redis keys "project:<name>:metadata",           *)
(* "projects:list" and "projects:active".                                  *)

\* Project names callers pass.
Names == { "a", "b", "c" }

\* The template argument; NoValue is the default None.
Templates == { NoValue, "web" }

\* f"project:{name}"
ProjectId(name) == <<"project:", name>>

\* The mapping create_project writes; the time of the call stands as "now".
ProjectMetadata(name, template) ==
    [name |-> name,
     created |-> "now",
     template |-> IF template = NoValue THEN "default" ELSE template,
     status |-> "active"]

\* create_project(name, template): HSET of the metadata, SADD to the list,
\* SET of the active project; it returns the project id.
create_project(meta, list, active, name, template) ==
    LET project_id == ProjectId(name)
    IN  [metadata |-> Hset(meta, project_id, ProjectMetadata(name, template)),
         list |-> list \cup {project_id},
         active |-> project_id,
         returned |-> project_id]

\* A faulty variant: the active project is set without the membership test.
SwitchWithoutMembership(list, active, name) ==
    [active |-> ProjectId(name), returned |-> TRUE]

\* switch_project(name): SET of the active project when SISMEMBER finds the
\* id in the list, and True; otherwise False.
switch_project(list, active, name) ==
    IF ProjectId(name) \in list
    THEN [active |-> ProjectId(name), returned |-> TRUE]
    ELSE [active |-> active, returned |-> FALSE]

CreateProject ==
    \E name \in Names, template \in Templates :
        LET done == create_project(project_metadata, projects_list,
                                   projects_active, name, template)
        IN  /\ project_metadata' = done.metadata
            /\ projects_list' = done.list
            /\ projects_active' = done.active
            /\ pcall' = [kind |-> "create", name |-> name,
                         returned |-> done.returned]
            /\ UNCHANGED <<storeVars, concVars, routerVars, poolVars>>

SwitchProject ==
    \E name \in Names :
        LET done == switch_project(projects_list, projects_active, name)
        IN  /\ projects_active' = done.active
            /\ pcall' = [kind |-> "switch", name |-> name,
                         returned |-> done.returned]
            /\ UNCHANGED <<project_metadata, projects_list,
                           storeVars, concVars, routerVars, poolVars>>

NextProjects ==
    \/ CreateProject
    \/ SwitchProject

SpecProjects == Init /\ [][NextProjects]_vars

\* C17: after every create_project and switch_project call the active
\* project is unset or a member of the project list; a switch to a name
\* that was never created returns False and changes neither the active
\* project nor the list; a create leaves the id of its name as the active
\* project and in the list.
C17_ActiveIsListed ==
    [][ /\ projects_active' = NoKey \/ projects_active' \in projects_list'
        /\ (pcall'.kind = "switch"
              /\ ProjectId(pcall'.name) \notin projects_list) =>
               /\ pcall'.returned = FALSE
               /\ projects_active' = projects_active
               /\ projects_list' = projects_list
        /\ pcall'.kind = "create" =>
               /\ projects_active' = ProjectId(pcall'.name)
               /\ ProjectId(pcall'.name) \in projects_list'
      ]_vars

\* A switch to a name never created was refused while another project was
\* active.
C17_Witness ==
    /\ pcall.kind = "switch"
    /\ pcall.returned = FALSE
    /\ ProjectId(pcall.name) \notin projects_list
    /\ projects_active # NoKey
    /\ projects_active \in projects_list

====
